---- MODULE Spec2Model ----
(***************************************************************************)
(* The SVG path reconstruction of nodes/weyl_vectorize.py:                 *)
(*   parse_path_data   - one d="..." value -> control points + closed flag *)
(*   parse_svg_to_paths - an SVG document  -> the list of path records     *)
(*                                                                         *)
(* Numbers.  The code computes in floats.  Every coordinate is held here   *)
(* as an integer number of thirds of a unit (Unit == 3), so that the       *)
(* factor 2/3 of the quadratic-to-cubic conversion is exact on the integer *)
(* inputs the model draws; floating-point rounding is not modelled.        *)
(*                                                                         *)
(* None is the empty tuple; a handle {"x": a, "y": b} is the pair <<a, b>>.*)
(***************************************************************************)
EXTENDS Integers, Sequences, FiniteSets, TLC

\* ------------------------------------------------------------------- state
\* one call of parse_path_data: the alphabet of its path data, the path data
\* read so far (as the tokenizer sees it) and the commands found in it, its
\* locals, and where it stands (loop, done, error)
VARIABLES pool, text, commands, locals, ppc

\* the calls of parse_svg_to_paths, per task: the document, the size of the
\* traced image (the arguments img_width, img_height), the loop index, the
\* list paths, and where the call stands (idle, loop, done, error)
VARIABLES svg, img_size, idx, paths, pc

\* the StarVector model: the three module globals, where the download and
\* the vectorize handler stand, and the status of the last response of each
\* handler (0 when it has not answered yet)
VARIABLES STARVECTOR_AVAILABLE, STARVECTOR_MODEL, STARVECTOR_LOADING, hpc, status

pathVars == <<pool, text, commands, locals, ppc>>

docVars == <<svg, img_size, idx, paths, pc>>

starVars == <<STARVECTOR_AVAILABLE, STARVECTOR_MODEL, STARVECTOR_LOADING, hpc, status>>

vars == <<pool, text, commands, locals, ppc, svg, img_size, idx, paths, pc,
          STARVECTOR_AVAILABLE, STARVECTOR_MODEL, STARVECTOR_LOADING, hpc, status>>

\* ------------------------------------------------------------------ bounds
\* commands read from one path-data string (SpecPath)
MaxCmds == 3
\* <path> elements of one document (SpecDoc)
MaxElems == 3

\* ----------------------------------------------------------------- numbers
Unit == 3

None == <<>>

\* float(num): the value of a numeric literal, in thirds
Float(n) == n * Unit

\* (2/3) * v
TwoThirds(v) == (2 * v) \div Unit

\* ------------------------------------------------------------------ tokens
\* What the tokenizer's regular expression sees in a path-data string: a
\* command letter, a numeric literal, or text that it matches as neither.
Cmd(c) == [t |-> "cmd", c |-> c, n |-> 0]
Num(n) == [t |-> "num", c |-> "", n |-> n]
Junk == [t |-> "junk", c |-> "", n |-> 0]

\* a command letter followed by numeric literals
K(c, nums) == <<Cmd(c)>> \o [i \in 1..Len(nums) |-> Num(nums[i])]

\* re.findall: only the matches are returned, the text between them is dropped
FindTokens(toks) == SelectSeq(toks, LAMBDA tk : tk.t \in {"cmd", "num"})

\* the loop that groups the numbers under the command letter before them
RECURSIVE GroupTokens(_, _, _, _, _)
GroupTokens(tokens, k, current_cmd, current_args, cmds) ==
    IF k > Len(tokens)
    THEN IF current_cmd # "" THEN Append(cmds, [cmd |-> current_cmd, args |-> current_args])
                             ELSE cmds
    ELSE IF tokens[k].t = "cmd"
    THEN GroupTokens(tokens, k + 1, tokens[k].c, <<>>,
                     IF current_cmd # ""
                     THEN Append(cmds, [cmd |-> current_cmd, args |-> current_args])
                     ELSE cmds)
    ELSE GroupTokens(tokens, k + 1, current_cmd,
                     Append(current_args, Float(tokens[k].n)), cmds)

\* tokens -> commands [(cmd, args)]
Commands(toks) == GroupTokens(FindTokens(toks), 1, "", <<>>, <<>>)

\* --------------------------------------------------------- the interpreter
LowerLetters == {"m", "l", "h", "v", "c", "s", "q", "t", "a", "z"}

\* cmd.islower()
IsLower(cmd) == cmd \in LowerLetters

\* cmd.upper()
Upper(cmd) ==
    CASE cmd \in {"M", "m"} -> "M"
      [] cmd \in {"L", "l"} -> "L"
      [] cmd \in {"H", "h"} -> "H"
      [] cmd \in {"V", "v"} -> "V"
      [] cmd \in {"C", "c"} -> "C"
      [] cmd \in {"S", "s"} -> "S"
      [] cmd \in {"Q", "q"} -> "Q"
      [] cmd \in {"T", "t"} -> "T"
      [] cmd \in {"A", "a"} -> "A"
      [] cmd \in {"Z", "z"} -> "Z"

\* a mutant of CpId: the two indices are swapped
CpIdSwapped(path_idx, point_idx) ==
    "cp_" \o ToString(point_idx) \o "_" \o ToString(path_idx)

\* f"cp_{path_idx}_{point_idx}"
CpId(path_idx, point_idx) == "cp_" \o ToString(path_idx) \o "_" \o ToString(point_idx)

\* the locals of parse_path_data before its command loop; raised marks an
\* exception leaving the function
InitLocals(path_idx) ==
    [control_points |-> <<>>, is_closed |-> FALSE,
     cx |-> 0, cy |-> 0, start_x |-> 0, start_y |-> 0,
     last_cp |-> None, point_idx |-> 0, path_idx |-> path_idx, raised |-> FALSE]

\* args[i], 0-based as in the code
At(args, i) == args[i + 1]

\* a mutant of Off: a relative argument is taken as an absolute one
OffAbsolute(v, base, is_relative) == v

\* v + (base if is_relative else 0)
Off(v, base, is_relative) == v + (IF is_relative THEN base ELSE 0)

\* a mutant of AppendPoint: the new point is put before the others
AppendPointFront(s, x, y, handleIn, type) ==
    [s EXCEPT !.control_points =
                  <<[id |-> CpId(s.path_idx, s.point_idx), x |-> x, y |-> y,
                     handleIn |-> handleIn, handleOut |-> None, type |-> type]>> \o @,
              !.point_idx = @ + 1]

\* control_points.append({...}); point_idx += 1
AppendPoint(s, x, y, handleIn, type) ==
    [s EXCEPT !.control_points =
                  Append(@, [id |-> CpId(s.path_idx, s.point_idx), x |-> x, y |-> y,
                             handleIn |-> handleIn, handleOut |-> None, type |-> type]),
              !.point_idx = @ + 1]

\* a mutant of SetHandleOutC: the previous point always becomes smooth
SetHandleOutCAlways(s, h) ==
    LET n == Len(s.control_points) IN
    IF n = 0 THEN s
    ELSE [s EXCEPT !.control_points[n].handleOut = h,
                   !.control_points[n].type = "smooth"]

\* C: handleOut on the previous point, smooth only if it has a handleIn
SetHandleOutC(s, h) ==
    LET n == Len(s.control_points) IN
    IF n = 0 THEN s
    ELSE [s EXCEPT !.control_points[n].handleOut = h,
                   !.control_points[n].type =
                       IF s.control_points[n].handleIn # None THEN "smooth" ELSE @]

\* a mutant of SetHandleOut: the previous point becomes smooth without a handleOut
SetHandleOutSkipped(s, h) ==
    LET n == Len(s.control_points) IN
    IF n = 0 THEN s
    ELSE [s EXCEPT !.control_points[n].type = "smooth"]

\* S, Q, T: handleOut on the previous point, which becomes smooth
SetHandleOut(s, h) ==
    LET n == Len(s.control_points) IN
    IF n = 0 THEN s
    ELSE [s EXCEPT !.control_points[n].handleOut = h,
                   !.control_points[n].type = "smooth"]

\* an IndexError leaves the function
Raise(s) == [s EXCEPT !.raised = TRUE]

\* a mutant of ClearLastCp: last_cp is kept
ClearLastCpKeeps(s) == s

\* last_cp_x, last_cp_y = None, None  (after the loop of a non-curve command)
ClearLastCp(s) == IF s.raised THEN s ELSE [s EXCEPT !.last_cp = None]

\* a mutant of StartSubpath: the new subpath starts a new point list
StartSubpathFresh(s, x, y) ==
    [s EXCEPT !.start_x = x, !.start_y = y, !.control_points = <<>>]

\* a mutant of StartSubpath: the new subpath starts open
StartSubpathReopens(s, x, y) ==
    [s EXCEPT !.start_x = x, !.start_y = y, !.is_closed = FALSE]

\* start_x, start_y = x, y
StartSubpath(s, x, y) == [s EXCEPT !.start_x = x, !.start_y = y]

\* a mutant of MoveTo: every pair starts the subpath anew
RECURSIVE MoveToRestarts(_, _, _, _)
MoveToRestarts(s, args, i, is_relative) ==
    IF ~(i < Len(args)) THEN s
    ELSE IF ~(i + 1 < Len(args)) THEN Raise(s)
    ELSE LET x == Off(At(args, i), s.cx, is_relative)
             y == Off(At(args, i + 1), s.cy, is_relative)
             s2 == AppendPoint(StartSubpath(s, x, y), x, y, None, "corner")
         IN  MoveToRestarts([s2 EXCEPT !.cx = x, !.cy = y], args, i + 2, is_relative)

RECURSIVE MoveTo(_, _, _, _)
MoveTo(s, args, i, is_relative) ==
    IF ~(i < Len(args)) THEN s
    ELSE IF ~(i + 1 < Len(args)) THEN Raise(s)
    ELSE LET x == Off(At(args, i), s.cx, is_relative)
             y == Off(At(args, i + 1), s.cy, is_relative)
             s1 == IF i = 0 THEN StartSubpath(s, x, y) ELSE s
             s2 == AppendPoint(s1, x, y, None, "corner")
         IN  MoveTo([s2 EXCEPT !.cx = x, !.cy = y], args, i + 2, is_relative)

RECURSIVE LineTo(_, _, _, _)
LineTo(s, args, i, is_relative) ==
    IF ~(i < Len(args)) THEN s
    ELSE IF ~(i + 1 < Len(args)) THEN Raise(s)
    ELSE LET x == Off(At(args, i), s.cx, is_relative)
             y == Off(At(args, i + 1), s.cy, is_relative)
             s2 == AppendPoint(s, x, y, None, "corner")
         IN  LineTo([s2 EXCEPT !.cx = x, !.cy = y], args, i + 2, is_relative)

\* a mutant of HLine: the argument is given to both axes
RECURSIVE HLineDiagonal(_, _, _, _)
HLineDiagonal(s, args, i, is_relative) ==
    IF ~(i < Len(args)) THEN s
    ELSE LET x == Off(At(args, i), s.cx, is_relative)
             y == Off(At(args, i), s.cy, is_relative)
             s2 == AppendPoint(s, x, y, None, "corner")
         IN  HLineDiagonal([s2 EXCEPT !.cx = x, !.cy = y], args, i + 1, is_relative)

RECURSIVE HLine(_, _, _, _)
HLine(s, args, i, is_relative) ==
    IF ~(i < Len(args)) THEN s
    ELSE LET x == Off(At(args, i), s.cx, is_relative)
             s2 == AppendPoint(s, x, s.cy, None, "corner")
         IN  HLine([s2 EXCEPT !.cx = x], args, i + 1, is_relative)

RECURSIVE VLine(_, _, _, _)
VLine(s, args, i, is_relative) ==
    IF ~(i < Len(args)) THEN s
    ELSE LET y == Off(At(args, i), s.cy, is_relative)
             s2 == AppendPoint(s, s.cx, y, None, "corner")
         IN  VLine([s2 EXCEPT !.cy = y], args, i + 1, is_relative)

\* a mutant of Cubic: arguments that do not fill a group raise, as in M and L
RECURSIVE CubicRaises(_, _, _, _)
CubicRaises(s, args, i, is_relative) ==
    IF ~(i < Len(args)) THEN s
    ELSE IF ~(i + 5 < Len(args)) THEN Raise(s)
    ELSE LET cp1x == Off(At(args, i), s.cx, is_relative)
             cp1y == Off(At(args, i + 1), s.cy, is_relative)
             cp2x == Off(At(args, i + 2), s.cx, is_relative)
             cp2y == Off(At(args, i + 3), s.cy, is_relative)
             x == Off(At(args, i + 4), s.cx, is_relative)
             y == Off(At(args, i + 5), s.cy, is_relative)
             s1 == SetHandleOutC(s, <<cp1x, cp1y>>)
             s2 == AppendPoint(s1, x, y, <<cp2x, cp2y>>, "smooth")
         IN  CubicRaises([s2 EXCEPT !.cx = x, !.cy = y, !.last_cp = <<cp2x, cp2y>>],
                         args, i + 6, is_relative)

RECURSIVE Cubic(_, _, _, _)
Cubic(s, args, i, is_relative) ==
    IF ~(i + 5 < Len(args)) THEN s
    ELSE LET cp1x == Off(At(args, i), s.cx, is_relative)
             cp1y == Off(At(args, i + 1), s.cy, is_relative)
             cp2x == Off(At(args, i + 2), s.cx, is_relative)
             cp2y == Off(At(args, i + 3), s.cy, is_relative)
             x == Off(At(args, i + 4), s.cx, is_relative)
             y == Off(At(args, i + 5), s.cy, is_relative)
             s1 == SetHandleOutC(s, <<cp1x, cp1y>>)
             s2 == AppendPoint(s1, x, y, <<cp2x, cp2y>>, "smooth")
         IN  Cubic([s2 EXCEPT !.cx = x, !.cy = y, !.last_cp = <<cp2x, cp2y>>],
                   args, i + 6, is_relative)

\* a mutant of Reflect: the last control point is reused, not reflected
ReflectNot(s) ==
    IF s.last_cp # None THEN s.last_cp ELSE <<s.cx, s.cy>>

\* the reflection of last_cp through the current point, or the current point
Reflect(s) ==
    IF s.last_cp # None
    THEN <<2 * s.cx - s.last_cp[1], 2 * s.cy - s.last_cp[2]>>
    ELSE <<s.cx, s.cy>>

RECURSIVE SmoothCubic(_, _, _, _)
SmoothCubic(s, args, i, is_relative) ==
    IF ~(i + 3 < Len(args)) THEN s
    ELSE LET cp1 == Reflect(s)
             cp2x == Off(At(args, i), s.cx, is_relative)
             cp2y == Off(At(args, i + 1), s.cy, is_relative)
             x == Off(At(args, i + 2), s.cx, is_relative)
             y == Off(At(args, i + 3), s.cy, is_relative)
             s1 == SetHandleOut(s, cp1)
             s2 == AppendPoint(s1, x, y, <<cp2x, cp2y>>, "smooth")
         IN  SmoothCubic([s2 EXCEPT !.cx = x, !.cy = y, !.last_cp = <<cp2x, cp2y>>],
                         args, i + 4, is_relative)

\* a mutant of QuadCp: the factor 1/3 in place of 2/3
QuadCpOneThird(p, q) == p + (q - p) \div Unit

\* CP1 = P0 + 2/3 * (Q - P0)
QuadCp(p, q) == p + TwoThirds(q - p)

\* a mutant of Quadratic: last_cp keeps the derived cubic control
RECURSIVE QuadraticKeepsCubic(_, _, _, _)
QuadraticKeepsCubic(s, args, i, is_relative) ==
    IF ~(i + 3 < Len(args)) THEN s
    ELSE LET qx == Off(At(args, i), s.cx, is_relative)
             qy == Off(At(args, i + 1), s.cy, is_relative)
             x == Off(At(args, i + 2), s.cx, is_relative)
             y == Off(At(args, i + 3), s.cy, is_relative)
             s1 == SetHandleOut(s, <<QuadCp(s.cx, qx), QuadCp(s.cy, qy)>>)
             s2 == AppendPoint(s1, x, y, <<QuadCp(x, qx), QuadCp(y, qy)>>, "smooth")
         IN  QuadraticKeepsCubic([s2 EXCEPT !.cx = x, !.cy = y,
                                            !.last_cp = <<QuadCp(x, qx), QuadCp(y, qy)>>],
                                 args, i + 4, is_relative)

RECURSIVE Quadratic(_, _, _, _)
Quadratic(s, args, i, is_relative) ==
    IF ~(i + 3 < Len(args)) THEN s
    ELSE LET qx == Off(At(args, i), s.cx, is_relative)
             qy == Off(At(args, i + 1), s.cy, is_relative)
             x == Off(At(args, i + 2), s.cx, is_relative)
             y == Off(At(args, i + 3), s.cy, is_relative)
             s1 == SetHandleOut(s, <<QuadCp(s.cx, qx), QuadCp(s.cy, qy)>>)
             s2 == AppendPoint(s1, x, y, <<QuadCp(x, qx), QuadCp(y, qy)>>, "smooth")
         IN  Quadratic([s2 EXCEPT !.cx = x, !.cy = y, !.last_cp = <<qx, qy>>],
                       args, i + 4, is_relative)

RECURSIVE SmoothQuadratic(_, _, _, _)
SmoothQuadratic(s, args, i, is_relative) ==
    IF ~(i + 1 < Len(args)) THEN s
    ELSE LET q == Reflect(s)
             x == Off(At(args, i), s.cx, is_relative)
             y == Off(At(args, i + 1), s.cy, is_relative)
             s1 == SetHandleOut(s, <<QuadCp(s.cx, q[1]), QuadCp(s.cy, q[2])>>)
             s2 == AppendPoint(s1, x, y, <<QuadCp(x, q[1]), QuadCp(y, q[2])>>, "smooth")
         IN  SmoothQuadratic([s2 EXCEPT !.cx = x, !.cy = y, !.last_cp = q],
                             args, i + 2, is_relative)

\* a mutant of Arc: the line is drawn to the radii, not to the end point
RECURSIVE ArcAtRadii(_, _, _, _)
ArcAtRadii(s, args, i, is_relative) ==
    IF ~(i + 6 < Len(args)) THEN s
    ELSE LET x == Off(At(args, i), s.cx, is_relative)
             y == Off(At(args, i + 1), s.cy, is_relative)
             s2 == AppendPoint(s, x, y, None, "corner")
         IN  ArcAtRadii([s2 EXCEPT !.cx = x, !.cy = y], args, i + 7, is_relative)

RECURSIVE Arc(_, _, _, _)
Arc(s, args, i, is_relative) ==
    IF ~(i + 6 < Len(args)) THEN s
    ELSE LET x == Off(At(args, i + 5), s.cx, is_relative)
             y == Off(At(args, i + 6), s.cy, is_relative)
             s2 == AppendPoint(s, x, y, None, "corner")
         IN  Arc([s2 EXCEPT !.cx = x, !.cy = y], args, i + 7, is_relative)

\* a mutant of ClosePath: the current point stays where it is
ClosePathStays(s) == [s EXCEPT !.is_closed = TRUE, !.last_cp = None]

ClosePath(s) ==
    [s EXCEPT !.is_closed = TRUE, !.cx = s.start_x, !.cy = s.start_y, !.last_cp = None]

\* one iteration of "for cmd, args in commands"
ExecCommand(s, cmd, args) ==
    LET is_relative == IsLower(cmd)
        cmd_upper == Upper(cmd)
    IN  CASE cmd_upper = "M" -> ClearLastCp(MoveTo(s, args, 0, is_relative))
          [] cmd_upper = "L" -> ClearLastCp(LineTo(s, args, 0, is_relative))
          [] cmd_upper = "H" -> ClearLastCp(HLine(s, args, 0, is_relative))
          [] cmd_upper = "V" -> ClearLastCp(VLine(s, args, 0, is_relative))
          [] cmd_upper = "C" -> Cubic(s, args, 0, is_relative)
          [] cmd_upper = "S" -> SmoothCubic(s, args, 0, is_relative)
          [] cmd_upper = "Q" -> Quadratic(s, args, 0, is_relative)
          [] cmd_upper = "T" -> SmoothQuadratic(s, args, 0, is_relative)
          [] cmd_upper = "A" -> ClearLastCp(Arc(s, args, 0, is_relative))
          [] cmd_upper = "Z" -> ClosePath(s)

\* the command loop, left at the first exception
RECURSIVE RunCommands(_, _, _)
RunCommands(s, cmds, k) ==
    IF k > Len(cmds) \/ s.raised THEN s
    ELSE RunCommands(ExecCommand(s, cmds[k].cmd, cmds[k].args), cmds, k + 1)

\* parse_path_data(d, path_idx), d given as what the tokenizer sees in it
parse_path_data(d, path_idx) == RunCommands(InitLocals(path_idx), Commands(d), 1)

\* ----------------------------------------------- SpecPath: parse_path_data
\* One call of parse_path_data, its command loop taken one command at a time.
\* The path data is read as the loop goes: every command, with the text
\* around it, is drawn from pool, the alphabet of this run's path-data string.
PoolLines ==
    {K("M", <<10, 10>>), K("m", <<1, 2, 3, 4>>), K("L", <<20, 10>>), K("L", <<20, 20>>),
     K("l", <<10, 0>>), K("l", <<0, 10>>), K("H", <<2>>), K("h", <<1, 2>>),
     K("V", <<2>>), K("v", <<1, 2>>), K("Z", <<>>), K("z", <<>>), K("L", <<1, 2, 3>>)}

PoolCubic ==
    {K("M", <<0, 0>>), K("C", <<0, 50, 50, 50, 50, 0>>), K("S", <<100, -50, 100, 0>>),
     K("c", <<1, 2, 3, 4, 5, 6>>), K("c", <<1, 2, 3, 4, 5, 6, 6, 5, 4, 3, 2, 1>>),
     K("s", <<1, 2, 3, 4>>), K("s", <<1, 2, 3, 4, 4, 3, 2, 1>>),
     K("C", <<1, 2, 3, 4, 5, 6, 7>>), K("S", <<1, 2, 3>>), K("Z", <<>>),
     K("l", <<1, 1>>), K("m", <<1, 1>>)}

PoolQuad ==
    {K("M", <<0, 0>>), K("Q", <<50, 100, 100, 0>>), K("q", <<1, 2, 3, 4>>),
     K("q", <<1, 2, 3, 4, 2, 1, 4, 3>>), K("T", <<3, 1>>), K("t", <<1, 2>>),
     K("t", <<1, 2, 2, 1>>), K("Q", <<1, 2, 3>>), K("T", <<1>>), K("z", <<>>),
     K("l", <<1, 2>>), K("M", <<1>>)}

PoolMixed ==
    {K("M", <<1, 2>>), K("c", <<1, 2, 3, 4, 5, 6>>), K("S", <<4, 3, 2, 1>>),
     K("q", <<1, 2, 3, 4>>), K("T", <<3, 1>>), K("C", <<6, 5, 4, 3, 2, 1>>),
     K("s", <<1, 2, 3, 4>>), K("Q", <<4, 3, 2, 1>>), K("t", <<1, 2>>),
     K("a", <<1, 1, 0, 0, 1, 2, 3>>), K("A", <<1, 1, 0, 0, 1, 3, 2>>), K("z", <<>>),
     K("h", <<1>>), K("m", <<1, 2, 3>>)}

PoolArc ==
    {K("M", <<2, 1>>), K("a", <<1, 1, 0, 0, 1, 2, 3>>),
     K("a", <<1, 1, 0, 0, 1, 2, 3, 2, 2, 0, 1, 0, 3, 1>>),
     K("A", <<1, 1, 0, 0, 1, 3, 2>>), K("A", <<1, 1, 0, 0, 1, 3>>),
     K("s", <<1, 2, 3, 4>>), K("t", <<1, 2>>), K("c", <<1, 2, 3, 4, 5, 6>>),
     K("Z", <<>>), K("L", <<1>>), K("v", <<1>>), K("l", <<1, 1>>)}

\* path data with text the tokenizer matches as nothing: "# L20,20", "L1e,5",
\* "M1,2#", "?z", "l1x1"
PoolJunk ==
    {K("M", <<0, 0>>), K("L", <<10, 10>>), <<Junk>> \o K("L", <<20, 20>>),
     K("L", <<1>>) \o <<Junk, Num(5)>>, K("M", <<1, 2>>) \o <<Junk>>,
     <<Junk>> \o K("z", <<>>), K("l", <<>>) \o <<Num(1), Junk, Num(1)>>,
     K("c", <<1, 2, 3, 4, 5, 6>>), K("Z", <<>>)}

Pools == {PoolLines, PoolCubic, PoolQuad, PoolMixed, PoolArc, PoolJunk}

\* the module as imported: no model, no handler running, nothing answered
NoStar ==
    /\ STARVECTOR_AVAILABLE = FALSE
    /\ STARVECTOR_MODEL = None
    /\ STARVECTOR_LOADING = FALSE
    /\ hpc = [download |-> "idle", vectorize |-> "idle"]
    /\ status = [download |-> 0, unload |-> 0, vectorize |-> 0]

\* no call of parse_svg_to_paths is under way
NoDoc ==
    /\ svg = [t \in {1, 2} |-> <<>>]
    /\ img_size = [t \in {1, 2} |-> <<100, 100>>]
    /\ idx = [t \in {1, 2} |-> 0]
    /\ paths = [t \in {1, 2} |-> <<>>]
    /\ pc = [t \in {1, 2} |-> "done"]

InitPath ==
    /\ NoDoc
    /\ NoStar
    /\ pool \in Pools
    /\ text = <<>>
    /\ commands = <<>>
    /\ \E path_idx \in {0, MaxElems - 1} : locals = InitLocals(path_idx)
    /\ ppc = "loop"

\* the next command of the path data is read and interpreted
Command ==
    /\ ppc = "loop"
    /\ Len(commands) < MaxCmds
    /\ \E chunk \in pool :
          LET c == Commands(chunk)[1]
              s == ExecCommand(locals, c.cmd, c.args)
          IN  /\ text' = text \o chunk
              /\ commands' = Append(commands, c)
              /\ locals' = s
              /\ ppc' = IF s.raised THEN "error" ELSE "loop"
    /\ UNCHANGED <<pool, docVars, starVars>>

\* return control_points, is_closed
ReturnPath ==
    /\ ppc = "loop"
    /\ ppc' = "done"
    /\ UNCHANGED <<pool, text, commands, locals, docVars, starVars>>

NextPath == Command \/ ReturnPath

SpecPath == InitPath /\ [][NextPath]_vars

\* ------------------------------------------------------ the SVG document
\* A document is the sequence of its <path ...> tags, as re.findall returns
\* them; a tag is the sequence of its attributes name="value"; a name is the
\* sequence of its characters.
D == <<"d">>
ID == <<"i", "d">>
FILL == <<"f", "i", "l", "l">>
STROKE == <<"s", "t", "r", "o", "k", "e">>

Attr(name, value) == [name |-> name, value |-> value]

\* re.search(r'key=["\']([^"\']*)["\']', attrs): the pattern is not anchored
\* at the start of an attribute name, so it matches the first attribute whose
\* name ends with key.  0 when there is no match.
EndsWith(name, key) ==
    /\ Len(name) >= Len(key)
    /\ SubSeq(name, Len(name) - Len(key) + 1, Len(name)) = key

Search(key, attrs) ==
    LET hits == {k \in 1..Len(attrs) : EndsWith(attrs[k].name, key)}
    IN  IF hits = {} THEN 0 ELSE CHOOSE k \in hits : \A j \in hits : k <= j

\* match.group(1) if match else ""
Group1(key, attrs) ==
    IF Search(key, attrs) = 0 THEN "" ELSE attrs[Search(key, attrs)].value

\* What the tokenizer's regular expression finds in each attribute value of
\* the model's documents.
Lex(value) ==
    CASE value = "M0,0L10,10" -> K("M", <<0, 0>>) \o K("L", <<10, 10>>)
      [] value = "M10,10 L50,10 L50,50 Z" ->
             K("M", <<10, 10>>) \o K("L", <<50, 10>>) \o K("L", <<50, 50>>) \o K("Z", <<>>)
      [] value = "M5,5" -> K("M", <<5, 5>>)
      [] value = "M0,0L10" -> K("M", <<0, 0>>) \o K("L", <<10>>)
      [] value = "M0,0 C0,50 50,50 50,0 S100,-50 100,0 Q1,2 3,4 T5,6 A1,1 0 0 1 7,8 H9 V9 Z" ->
             K("M", <<0, 0>>) \o K("C", <<0, 50, 50, 50, 50, 0>>)
                 \o K("S", <<100, -50, 100, 0>>) \o K("Q", <<1, 2, 3, 4>>)
                 \o K("T", <<5, 6>>) \o K("A", <<1, 1, 0, 0, 1, 7, 8>>)
                 \o K("H", <<9>>) \o K("V", <<9>>) \o K("Z", <<>>)
      [] value = "M0,0 L5,5 Z m1,1 l2,2 3,3" ->
             K("M", <<0, 0>>) \o K("L", <<5, 5>>) \o K("Z", <<>>)
                 \o K("m", <<1, 1>>) \o K("l", <<2, 2, 3, 3>>)
      [] value = "p1" -> <<Junk, Num(1)>>
      [] OTHER -> <<>>

\* if fill == "none" and (not stroke or stroke == "none")
Invisible(fill, stroke) == fill = "none" /\ (stroke = "" \/ stroke = "none")

\* a mutant of TooFew: only the empty point list is dropped
TooFewEmpty(control_points) == Len(control_points) < 1

\* if len(control_points) < 2
TooFew(control_points) == Len(control_points) < 2

\* a mutant of PathId: the index counted from 1
PathIdFromOne(i) == "path_" \o ToString(i + 1)

\* f"path_{idx}"
PathId(i) == "path_" \o ToString(i)

\* v if v != "none" else ""
NoneToEmpty(v) == IF v # "none" THEN v ELSE ""

\* the body of "for idx, attrs in enumerate(path_elements)": the list paths
\* after it, and whether an exception left the function
Element(paths_, idx_, attrs) ==
    LET fill == Group1(FILL, attrs)
        stroke == Group1(STROKE, attrs)
        r == parse_path_data(Lex(Group1(D, attrs)), idx_)
    IN  IF Search(D, attrs) = 0 THEN [paths |-> paths_, raised |-> FALSE]
        ELSE IF Invisible(fill, stroke) THEN [paths |-> paths_, raised |-> FALSE]
        ELSE IF r.raised THEN [paths |-> paths_, raised |-> TRUE]
        ELSE IF TooFew(r.control_points) THEN [paths |-> paths_, raised |-> FALSE]
        ELSE [paths |-> Append(paths_, [id |-> PathId(idx_),
                                        fill |-> NoneToEmpty(fill),
                                        stroke |-> NoneToEmpty(stroke),
                                        controlPoints |-> r.control_points,
                                        closed |-> r.is_closed]),
              raised |-> FALSE]

\* ---------------------------------------------- SpecDoc: parse_svg_to_paths
\* Calls of parse_svg_to_paths, one per task, each with its own locals; the
\* loop over the <path> tags is taken one tag at a time, so the calls of
\* several tasks interleave.
Tasks == {1, 2}

\* no call of parse_path_data is stepped on its own
NoPath ==
    /\ pool = {}
    /\ text = <<>>
    /\ commands = <<>>
    /\ locals = InitLocals(0)
    /\ ppc = "done"

\* a mutant of NewPaths: one list shared by the calls
NewPathsShared(t) == paths[3 - t]

\* paths = []
NewPaths(t) == <<>>

\* a call begins
Call(t) ==
    /\ pc[t] = "idle"
    /\ paths' = [paths EXCEPT ![t] = NewPaths(t)]
    /\ idx' = [idx EXCEPT ![t] = 0]
    /\ pc' = [pc EXCEPT ![t] = "loop"]
    /\ UNCHANGED <<svg, img_size, pathVars, starVars>>

\* one iteration of the loop over the <path> tags
ProcessElement(t) ==
    /\ pc[t] = "loop"
    /\ idx[t] < Len(svg[t])
    /\ LET r == Element(paths[t], idx[t], svg[t][idx[t] + 1])
       IN  /\ paths' = [paths EXCEPT ![t] = r.paths]
           /\ pc' = [pc EXCEPT ![t] = IF r.raised THEN "error" ELSE "loop"]
    /\ idx' = [idx EXCEPT ![t] = @ + 1]
    /\ UNCHANGED <<svg, img_size, pathVars, starVars>>

\* return paths
Return(t) ==
    /\ pc[t] = "loop"
    /\ idx[t] = Len(svg[t])
    /\ pc' = [pc EXCEPT ![t] = "done"]
    /\ UNCHANGED <<svg, img_size, idx, paths, pathVars, starVars>>

NextDoc == \E t \in Tasks : Call(t) \/ ProcessElement(t) \/ Return(t)

\* a mutant of TraceResponse: the coordinates are normalised by the image size
TraceResponseNormalized(t) ==
    [paths |-> [k \in 1..Len(paths[t]) |->
                  [paths[t][k] EXCEPT !.controlPoints =
                      [n \in 1..Len(@) |->
                          [@[n] EXCEPT !.x = @ \div img_size[t][1],
                                       !.y = @ \div img_size[t][2]]]]],
     width |-> img_size[t][1], height |-> img_size[t][2],
     pathCount |-> Len(paths[t])]

\* handle_trace: the response built around the list parse_svg_to_paths has
\* returned for the image of size (width, height)
TraceResponse(t) ==
    [paths |-> paths[t], width |-> img_size[t][1], height |-> img_size[t][2],
     pathCount |-> Len(paths[t])]

\* the <path> tags of the documents
Tag(d, fill, stroke) ==
    <<Attr(D, d)>>
        \o (IF fill = "absent" THEN <<>> ELSE <<Attr(FILL, fill)>>)
        \o (IF stroke = "absent" THEN <<>> ELSE <<Attr(STROKE, stroke)>>)

Painted ==
    {Tag("M0,0L10,10", fill, stroke) :
        fill \in {"absent", "none", "#ff0000"},
        stroke \in {"absent", "", "none", "#0000ff"}}

Others ==
    {Tag("M10,10 L50,10 L50,50 Z", "#ff0000", "absent"),
     Tag("M0,0 C0,50 50,50 50,0 S100,-50 100,0 Q1,2 3,4 T5,6 A1,1 0 0 1 7,8 H9 V9 Z",
         "absent", "#0000ff"),
     Tag("M5,5", "#ff0000", "absent"),
     Tag("M0,0L10", "#ff0000", "absent"),
     Tag("M0,0 L5,5 Z m1,1 l2,2 3,3", "#ff0000", "absent"),
     <<Attr(FILL, "#ff0000")>>,
     <<Attr(ID, "p1")>> \o Tag("M0,0L10,10", "#ff0000", "absent")}

SeqsUpTo(S, n) == UNION {[1..k -> S] : k \in 0..n}

\* one task parses a document of up to MaxElems tags; the other has returned
\* from parsing the empty document
InitDoc ==
    /\ NoPath
    /\ NoStar
    /\ img_size = [t \in Tasks |-> <<100, 100>>]
    /\ \E doc \in SeqsUpTo(Painted \cup Others, MaxElems) : svg = [t \in Tasks |-> IF t = 1 THEN doc ELSE <<>>]
    /\ idx = [t \in Tasks |-> 0]
    /\ paths = [t \in Tasks |-> <<>>]
    /\ pc = [t \in Tasks |-> IF t = 1 THEN "idle" ELSE "done"]

SpecDoc == InitDoc /\ [][NextDoc]_vars

\* SpecTasks: both tasks parse, each its own short document traced from an
\* image of its own size
Sizes == {<<100, 100>>, <<1920, 1080>>}

SmallTags ==
    {Tag("M0,0L10,10", "#ff0000", "absent"), Tag("M0,0L10,10", "none", "absent"),
     Tag("M10,10 L50,10 L50,50 Z", "absent", "#0000ff"), Tag("M0,0L10", "#ff0000", "absent")}

InitTasks ==
    /\ NoPath
    /\ NoStar
    /\ img_size \in [Tasks -> Sizes]
    /\ svg \in [Tasks -> SeqsUpTo(SmallTags, MaxElems - 1)]
    /\ idx = [t \in Tasks |-> 0]
    /\ paths = [t \in Tasks |-> <<>>]
    /\ pc = [t \in Tasks |-> "idle"]

SpecTasks == InitTasks /\ [][NextDoc]_vars

\* ------------------------------------------- SpecStar: the StarVector model
\* The handlers of the StarVector routes, run by one event loop.  A handler
\* runs without interruption up to its next await: handle_download_starvector
\* and handle_unload_starvector have none, handle_ai_vectorize has one (await
\* request.json()).  The download handler is taken statement by statement,
\* since each of its statements can raise; while it stands inside its body
\* no other handler runs.  A model object is the tuple of the stage it has
\* been brought to: <<"cpu">> by from_pretrained, <<"cuda">> by .cuda(),
\* <<"eval">> by .eval().
InitStar ==
    /\ NoPath
    /\ NoDoc
    /\ NoStar

\* the loop is free to run a handler
LoopFree == hpc.download = "idle"

\* except Exception as e: STARVECTOR_LOADING = False; return 500
DownloadExcept ==
    /\ STARVECTOR_LOADING' = FALSE
    /\ status' = [status EXCEPT !.download = 500]
    /\ hpc' = [hpc EXCEPT !.download = "idle"]

\* handle_download_starvector up to the try: 409 when a load is under way,
\* else STARVECTOR_LOADING = True
DownloadBegin ==
    /\ LoopFree
    /\ IF STARVECTOR_LOADING
       THEN /\ status' = [status EXCEPT !.download = 409]
            /\ UNCHANGED <<STARVECTOR_LOADING, hpc>>
       ELSE /\ STARVECTOR_LOADING' = TRUE
            /\ hpc' = [hpc EXCEPT !.download = "import"]
            /\ UNCHANGED status
    /\ UNCHANGED <<STARVECTOR_AVAILABLE, STARVECTOR_MODEL, pathVars, docVars>>

\* import torch; from transformers import AutoModelForCausalLM
DownloadImport ==
    /\ hpc.download = "import"
    /\ \E ok \in BOOLEAN :
          IF ok THEN /\ hpc' = [hpc EXCEPT !.download = "from_pretrained"]
                     /\ UNCHANGED <<STARVECTOR_LOADING, status>>
                ELSE DownloadExcept
    /\ UNCHANGED <<STARVECTOR_AVAILABLE, STARVECTOR_MODEL, pathVars, docVars>>

\* STARVECTOR_MODEL = AutoModelForCausalLM.from_pretrained(...): the global
\* is assigned only when the call returns
DownloadFromPretrained ==
    /\ hpc.download = "from_pretrained"
    /\ \E ok \in BOOLEAN :
          IF ok THEN /\ STARVECTOR_MODEL' = <<"cpu">>
                     /\ hpc' = [hpc EXCEPT !.download = "cuda"]
                     /\ UNCHANGED <<STARVECTOR_LOADING, status>>
                ELSE DownloadExcept /\ UNCHANGED STARVECTOR_MODEL
    /\ UNCHANGED <<STARVECTOR_AVAILABLE, pathVars, docVars>>

\* STARVECTOR_MODEL.cuda()
DownloadCuda ==
    /\ hpc.download = "cuda"
    /\ \E ok \in BOOLEAN :
          IF ok THEN /\ STARVECTOR_MODEL' = <<"cuda">>
                     /\ hpc' = [hpc EXCEPT !.download = "eval"]
                     /\ UNCHANGED <<STARVECTOR_LOADING, status>>
                ELSE DownloadExcept /\ UNCHANGED STARVECTOR_MODEL
    /\ UNCHANGED <<STARVECTOR_AVAILABLE, pathVars, docVars>>

\* STARVECTOR_MODEL.eval(); then STARVECTOR_AVAILABLE = True,
\* STARVECTOR_LOADING = False, return success
DownloadEval ==
    /\ hpc.download = "eval"
    /\ \E ok \in BOOLEAN :
          IF ok THEN /\ STARVECTOR_MODEL' = <<"eval">>
                     /\ STARVECTOR_AVAILABLE' = TRUE
                     /\ STARVECTOR_LOADING' = FALSE
                     /\ status' = [status EXCEPT !.download = 200]
                     /\ hpc' = [hpc EXCEPT !.download = "idle"]
                ELSE DownloadExcept /\ UNCHANGED <<STARVECTOR_MODEL, STARVECTOR_AVAILABLE>>
    /\ UNCHANGED <<pathVars, docVars>>

\* handle_unload_starvector
Unload ==
    /\ LoopFree
    /\ IF STARVECTOR_MODEL # None
       THEN STARVECTOR_MODEL' = None /\ STARVECTOR_AVAILABLE' = FALSE
       ELSE UNCHANGED <<STARVECTOR_MODEL, STARVECTOR_AVAILABLE>>
    /\ status' = [status EXCEPT !.unload = 200]
    /\ UNCHANGED <<STARVECTOR_LOADING, hpc, pathVars, docVars>>

\* handle_ai_vectorize up to await request.json(): 503 without a model
VectorizeBegin ==
    /\ LoopFree
    /\ hpc.vectorize = "idle"
    /\ IF ~STARVECTOR_AVAILABLE \/ STARVECTOR_MODEL = None
       THEN status' = [status EXCEPT !.vectorize = 503] /\ UNCHANGED hpc
       ELSE hpc' = [hpc EXCEPT !.vectorize = "json"] /\ UNCHANGED status
    /\ UNCHANGED <<STARVECTOR_AVAILABLE, STARVECTOR_MODEL, STARVECTOR_LOADING,
                   pathVars, docVars>>

\* handle_ai_vectorize after the await: the inference on STARVECTOR_MODEL,
\* which raises when the model has been unloaded meanwhile and may raise on
\* any model; every exception is answered with 500
VectorizeRun ==
    /\ LoopFree
    /\ hpc.vectorize = "json"
    /\ \E ok \in BOOLEAN :
          status' = [status EXCEPT !.vectorize =
                        IF ok /\ STARVECTOR_MODEL # None THEN 200 ELSE 500]
    /\ hpc' = [hpc EXCEPT !.vectorize = "idle"]
    /\ UNCHANGED <<STARVECTOR_AVAILABLE, STARVECTOR_MODEL, STARVECTOR_LOADING,
                   pathVars, docVars>>

NextStar ==
    \/ DownloadBegin \/ DownloadImport \/ DownloadFromPretrained
    \/ DownloadCuda \/ DownloadEval
    \/ Unload \/ VectorizeBegin \/ VectorizeRun

SpecStar == InitStar /\ [][NextStar]_vars

\* ================================================================== claims

\* the <path> tag the loop of task t takes next, and its attributes by name
NextTag(t) == svg[t][idx[t] + 1]

HasAttr(tag, name) == \E k \in 1..Len(tag) : tag[k].name = name

AttrOr(tag, name, default) ==
    IF HasAttr(tag, name)
    THEN tag[CHOOSE k \in 1..Len(tag) : tag[k].name = name].value
    ELSE default

\* task t takes one <path> tag in this step
Takes(t) == pc[t] = "loop" /\ idx'[t] = idx[t] + 1

\* ------------------------------------------------------------------- C1
\* C1: for every input, parse_svg_to_paths and parse_path_data return a
\* result; no call ends in an exception.
C1_NeverRaises == \A t \in Tasks : pc[t] # "error"

\* ------------------------------------------------------------------- C2
\* C2: every record of the list paths has at least 2 control points, and
\* there are no more records than tags taken whose path data, as extracted,
\* interprets to at least 2 points.
C2_PointFloor ==
    \A t \in Tasks :
        /\ \A k \in 1..Len(paths[t]) : Len(paths[t][k].controlPoints) >= 2
        /\ Len(paths[t]) <=
               Cardinality({k \in 1..idx[t] :
                   Len(parse_path_data(Lex(Group1(D, svg[t][k])), k - 1).control_points) >= 2})

\* a call has returned a record from a document that also holds a tag whose
\* path data is a single point
C2_Witness ==
    \E t \in Tasks :
        /\ pc[t] = "done"
        /\ Len(paths[t]) >= 1
        /\ \E k \in 1..Len(svg[t]) : svg[t][k] = Tag("M5,5", "#ff0000", "absent")

\* ------------------------------------------------------------------- C3
\* C3: at every point of the interpretation the closed flag is true exactly
\* when a Z or z is among the commands read so far; so the flag returned is
\* true iff the path data holds a Z/z, and no later command resets it.
C3_ClosedIffZ ==
    locals.is_closed <=> \E k \in 1..Len(commands) : commands[k].cmd \in {"Z", "z"}

\* a call has returned closed = true after a Z followed by an M that started
\* a new subpath
C3_Witness ==
    /\ ppc = "done"
    /\ locals.is_closed
    /\ \E k \in 1..Len(commands) - 1 :
          /\ commands[k].cmd \in {"Z", "z"}
          /\ commands[k + 1].cmd \in {"M", "m"}
          /\ Len(commands[k + 1].args) >= 2

\* ------------------------------------------------------------------- C4
\* C4: a tag with a d attribute that yields at least 2 points is dropped iff
\* its fill is "none" and its stroke is absent, empty or "none"; a record
\* that is appended reports a fill or stroke of "none", or an absent one, as
\* the empty string and any other value unchanged.
C4_FilterRule ==
    [][\A t \in Tasks :
         Takes(t) /\ HasAttr(NextTag(t), D) =>
           LET fill == AttrOr(NextTag(t), FILL, "absent")
               stroke == AttrOr(NextTag(t), STROKE, "absent")
               r == parse_path_data(Lex(AttrOr(NextTag(t), D, "")), idx[t])
               last == paths'[t][Len(paths'[t])]
           IN  ~r.raised /\ Len(r.control_points) >= 2 =>
                 /\ (paths'[t] = paths[t]) <=>
                        (fill = "none" /\ stroke \in {"absent", "", "none"})
                 /\ paths'[t] # paths[t] =>
                        /\ last.fill = IF fill \in {"absent", "none"} THEN "" ELSE fill
                        /\ last.stroke = IF stroke \in {"absent", "none"} THEN "" ELSE stroke
      ]_vars

\* ------------------------------------------------------------------- C5
\* C5 as stated: the record at position k of the list paths (from 0) has id
\* "path_<k>", whatever tags were skipped before it.
C5_RetainedIndex ==
    \A t \in Tasks : \A k \in 1..Len(paths[t]) :
        paths[t][k].id = "path_" \o ToString(k - 1)

\* C5 as amended: a record that is appended has id "path_<i>", i the position
\* (from 0) of its tag among all the <path> tags of the document; the
\* records before it are left as they are.
C5_ElementIndex ==
    [][\A t \in Tasks :
         Takes(t) /\ paths'[t] # paths[t] =>
           /\ Len(paths'[t]) = Len(paths[t]) + 1
           /\ SubSeq(paths'[t], 1, Len(paths[t])) = paths[t]
           /\ paths'[t][Len(paths'[t])].id = "path_" \o ToString(idx[t])
      ]_vars

\* a call has returned a list whose first record comes from the third tag
C5_Witness ==
    \E t \in Tasks :
        /\ pc[t] = "done"
        /\ Len(paths[t]) >= 1
        /\ paths[t][1].id = "path_2"

\* the command read in this step of parse_path_data
Reads == ppc = "loop" /\ Len(commands') = Len(commands) + 1

NewCmd == commands'[Len(commands')]

\* the number of arguments of one group of a command
Arity(cmd_upper) ==
    CASE cmd_upper \in {"M", "L", "T"} -> 2
      [] cmd_upper \in {"H", "V"} -> 1
      [] cmd_upper = "C" -> 6
      [] cmd_upper \in {"S", "Q"} -> 4
      [] cmd_upper = "A" -> 7
      [] cmd_upper = "Z" -> 0

\* the complete groups among the arguments of command c
Groups(c) ==
    IF Arity(Upper(c.cmd)) = 0 THEN 0 ELSE Len(c.args) \div Arity(Upper(c.cmd))

\* the anchor and the handles of point k after / before the step
Anchor(points, k) == <<points[k].x, points[k].y>>

\* ------------------------------------------------------------------- C6
\* whether argument j of a group is an x coordinate, a y coordinate, or no
\* coordinate
Axis(cmd_upper, j) ==
    CASE cmd_upper = "H" -> "x"
      [] cmd_upper = "V" -> "y"
      [] cmd_upper = "A" -> IF j = 6 THEN "x" ELSE IF j = 7 THEN "y" ELSE "-"
      [] OTHER -> IF j % 2 = 1 THEN "x" ELSE "y"

\* the arguments of the absolute command that stands for a relative one read
\* at the current point (x0, y0): group by group, every coordinate is the
\* offset added to the current point left by the group before; arguments
\* that fill no group are kept
RECURSIVE AbsoluteArgs(_, _, _, _, _)
AbsoluteArgs(cmd_upper, args, i, x0, y0) ==
    LET n == Arity(cmd_upper) IN
    IF n = 0 \/ i + n > Len(args) THEN SubSeq(args, i + 1, Len(args))
    ELSE LET group == [j \in 1..n |->
                         CASE Axis(cmd_upper, j) = "x" -> args[i + j] + x0
                           [] Axis(cmd_upper, j) = "y" -> args[i + j] + y0
                           [] OTHER -> args[i + j]]
             x1 == IF cmd_upper = "V" THEN x0
                   ELSE IF cmd_upper = "H" THEN group[n] ELSE group[n - 1]
             y1 == IF cmd_upper = "H" THEN y0 ELSE group[n]
         IN  group \o AbsoluteArgs(cmd_upper, args, i + n, x1, y1)

\* C6: reading a relative command leaves the interpreter exactly where the
\* absolute command with the offsets added to the current point, group by
\* group, leaves it: the same points with the same anchors and handles.
C6_RelativeIsAbsolute ==
    [][Reads /\ IsLower(NewCmd.cmd) =>
         locals' = ExecCommand(locals, Upper(NewCmd.cmd),
                               AbsoluteArgs(Upper(NewCmd.cmd), NewCmd.args, 0,
                                            locals.cx, locals.cy))
      ]_vars

\* "m 1,1 c 1,2 3,4 5,6 6,5 4,3 2,1" has been read: the second group of the c
\* is resolved against the end point (6,7) of the first
C6_Witness ==
    /\ Len(commands) = 2
    /\ commands[1].cmd = "m"
    /\ commands[2].cmd = "c" /\ Len(commands[2].args) = 12
    /\ Len(locals.control_points) = 3
    /\ Anchor(locals.control_points, 2) = <<Float(6), Float(7)>>
    /\ locals.control_points[2].handleOut = <<Float(12), Float(12)>>
    /\ Anchor(locals.control_points, 3) = <<Float(8), Float(8)>>

\* ------------------------------------------------------------------- C7
\* C7: for every group g of a Q/q command, with P0 the current point before
\* the group, Qc the quadratic control and P1 the end point: the handleOut
\* of the point before the appended one is CP1 with 3*CP1 = P0 + 2*Qc and
\* the handleIn of the appended point is CP2 with 3*CP2 = P1 + 2*Qc.
C7_QuadraticToCubic ==
    [][Reads /\ Upper(NewCmd.cmd) = "Q" =>
         LET n == Len(locals.control_points)
             pts == locals'.control_points
             a == NewCmd.args
         IN  /\ Len(pts) = n + Groups(NewCmd)
             /\ \A g \in 1..Groups(NewCmd) :
                  LET P0 == IF g = 1 THEN <<locals.cx, locals.cy>>
                                     ELSE Anchor(pts, n + g - 1)
                      base == IF IsLower(NewCmd.cmd) THEN P0 ELSE <<0, 0>>
                      Qc == <<a[4 * g - 3] + base[1], a[4 * g - 2] + base[2]>>
                      P1 == <<a[4 * g - 1] + base[1], a[4 * g] + base[2]>>
                  IN  /\ Anchor(pts, n + g) = P1
                      /\ \A d \in 1..2 :
                           /\ 3 * pts[n + g].handleIn[d] = P1[d] + 2 * Qc[d]
                           /\ n + g - 1 >= 1 =>
                                3 * pts[n + g - 1].handleOut[d] = P0[d] + 2 * Qc[d]
      ]_vars

\* "M 0,0 Q 50,100 100,0" has been read: the controls are (100/3, 200/3) and
\* (200/3, 200/3), held in thirds
C7_Witness ==
    /\ Len(commands) = 2
    /\ commands[1] = [cmd |-> "M", args |-> <<0, 0>>]
    /\ commands[2] = [cmd |-> "Q", args |-> <<Float(50), Float(100), Float(100), Float(0)>>]
    /\ locals.control_points[1].handleOut = <<100, 200>>
    /\ locals.control_points[2].handleIn = <<200, 200>>

\* ------------------------------------------------------------------- C8
\* the command before the one read in this step is a C/c or S/s that drew
\* at least one segment
AfterCubic ==
    /\ Len(commands) >= 1
    /\ Upper(commands[Len(commands)].cmd) \in {"C", "S"}
    /\ Groups(commands[Len(commands)]) >= 1

\* C8: when an S/s follows a cubic segment, the handleOut it sets on the
\* previous point is the reflection, through the current point, of the
\* second control of that segment (the handleIn of the previous point):
\* for the first group after a C/c or S/s command, and for every later group
\* of the same S/s command.
C8_SmoothReflection ==
    [][Reads /\ Upper(NewCmd.cmd) = "S" /\ Len(locals.control_points) >= 1 =>
         LET n == Len(locals.control_points)
             pts == locals'.control_points
         IN  /\ Len(pts) = n + Groups(NewCmd)
             /\ AfterCubic /\ Groups(NewCmd) >= 1 =>
                  \A d \in 1..2 :
                     pts[n].handleOut[d] =
                        2 * <<locals.cx, locals.cy>>[d] - locals.control_points[n].handleIn[d]
             /\ \A g \in 2..Groups(NewCmd) :
                  \A d \in 1..2 :
                     pts[n + g - 1].handleOut[d] =
                        2 * Anchor(pts, n + g - 1)[d] - pts[n + g - 1].handleIn[d]
      ]_vars

\* "M 0,0 C 0,50 50,50 50,0 S 100,-50 100,0" has been read: the first control
\* of the S segment is (50,-50)
C8_Witness ==
    /\ Len(commands) = 3
    /\ commands[1] = [cmd |-> "M", args |-> <<0, 0>>]
    /\ commands[2] = [cmd |-> "C", args |-> <<0, Float(50), Float(50), Float(50), Float(50), 0>>]
    /\ commands[3] = [cmd |-> "S", args |-> <<Float(100), Float(-50), Float(100), 0>>]
    /\ Len(locals.control_points) = 3
    /\ locals.control_points[2].handleOut = <<Float(50), Float(-50)>>

\* ------------------------------------------------------------------- C9
\* a call has ended, by a return or by an exception
Ended(t) == pc[t] \in {"done", "error"}

\* C9: two calls on the same text, however their steps interleave, end the
\* same way and, when they return, return the same list.
C9_Deterministic ==
    \A t, u \in Tasks :
        svg[t] = svg[u] /\ Ended(t) /\ Ended(u) =>
            /\ pc[t] = pc[u]
            /\ pc[t] = "done" => paths[t] = paths[u]

\* both calls have returned from the same document, with a record each
C9_Witness ==
    /\ svg[1] = svg[2]
    /\ pc[1] = "done" /\ pc[2] = "done"
    /\ Len(paths[1]) >= 1 /\ Len(paths[2]) >= 1

C11_AttributeValues ==
    [][\A t \in Tasks :
         Takes(t) =>
           LET tag == NextTag(t)
               fill == AttrOr(tag, FILL, "")
               stroke == AttrOr(tag, STROKE, "")
               r == parse_path_data(Lex(AttrOr(tag, D, "")), idx[t])
               last == paths'[t][Len(paths'[t])]
           IN  IF ~HasAttr(tag, D)
               THEN paths'[t] = paths[t] /\ pc'[t] = "loop"
               ELSE /\ ~r.raised /\ ~TooFew(r.control_points) /\ ~Invisible(fill, stroke)
                          => paths'[t] # paths[t]
                    /\ paths'[t] # paths[t] =>
                          /\ last.controlPoints = r.control_points
                          /\ last.closed = r.is_closed
                          /\ last.fill = NoneToEmpty(fill)
                          /\ last.stroke = NoneToEmpty(stroke)
      ]_vars

\* ------------------------------------------------------------------ C12
\* the position in the path data of the first text that is neither a command
\* letter nor a numeric literal; 0 when there is none
FirstMalformed ==
    LET bad == {j \in 1..Len(text) : text[j].t = "junk"}
    IN  IF bad = {} THEN 0 ELSE CHOOSE j \in bad : \A k \in bad : j <= k

\* C12: once the path data holds a malformed token, the points and the closed
\* flag are those of the path data that stands before that token, whatever
\* follows it.
C12_MalformedEndsInput ==
    FirstMalformed # 0 /\ ppc # "error" =>
        LET r == parse_path_data(SubSeq(text, 1, FirstMalformed - 1), locals.path_idx)
        IN  /\ locals.control_points = r.control_points
            /\ locals.is_closed = r.is_closed

\* ------------------------------------------------------------------ C13
\* C13: an L/l, H/h or V/v command appends one point per coordinate pair
\* (L) or per argument (H, V), in argument order, and leaves the points
\* before them as they are; each appended point is a corner without
\* handles; with P0 the current point before the group, an L point is the
\* pair (plus P0 when relative), an H point is (argument (plus P0.x), P0.y),
\* a V point is (P0.x, argument (plus P0.y)); the current point ends at the
\* last appended point.
C13_StraightLines ==
    [][Reads /\ Upper(NewCmd.cmd) \in {"L", "H", "V"} =>
         LET n == Len(locals.control_points)
             pts == locals'.control_points
             a == NewCmd.args
             u == Upper(NewCmd.cmd)
         IN  /\ Len(pts) = n + Groups(NewCmd)
             /\ SubSeq(pts, 1, n) = locals.control_points
             /\ \A g \in 1..Groups(NewCmd) :
                  LET P0 == IF g = 1 THEN <<locals.cx, locals.cy>>
                                     ELSE Anchor(pts, n + g - 1)
                      base == IF IsLower(NewCmd.cmd) THEN P0 ELSE <<0, 0>>
                      P1 == CASE u = "L" -> <<a[2 * g - 1] + base[1], a[2 * g] + base[2]>>
                              [] u = "H" -> <<a[g] + base[1], P0[2]>>
                              [] u = "V" -> <<P0[1], a[g] + base[2]>>
                  IN  /\ Anchor(pts, n + g) = P1
                      /\ pts[n + g].type = "corner"
                      /\ pts[n + g].handleIn = None
                      /\ pts[n + g].handleOut = None
             /\ Groups(NewCmd) >= 1 =>
                  <<locals'.cx, locals'.cy>> = Anchor(pts, n + Groups(NewCmd))
      ]_vars

\* "M 10,10 h 1 2 V 2" has been read: the corner points (10,10), (11,10),
\* (13,10), (13,2)
C13_Witness ==
    /\ Len(commands) = 3
    /\ commands[1] = [cmd |-> "M", args |-> <<Float(10), Float(10)>>]
    /\ commands[2] = [cmd |-> "h", args |-> <<Float(1), Float(2)>>]
    /\ commands[3] = [cmd |-> "V", args |-> <<Float(2)>>]
    /\ [k \in 1..4 |-> Anchor(locals.control_points, k)] =
           <<<<Float(10), Float(10)>>, <<Float(11), Float(10)>>,
             <<Float(13), Float(10)>>, <<Float(13), Float(2)>>>>
    /\ \A k \in 1..4 : locals.control_points[k].type = "corner"

\* ------------------------------------------------------------------ C14
\* the command before the one read in this step, "" when there is none
PrevCmd == IF Len(commands) = 0 THEN "" ELSE Upper(commands[Len(commands)].cmd)

\* C14: when the command before an S/s is not a cubic curve command (C/c or
\* S/s), in particular when it is a Q/q or T/t, the handleOut that the first
\* S segment sets on the previous point is the current point.
C14_OnlyCubicReflected ==
    [][Reads /\ Upper(NewCmd.cmd) = "S" /\ Groups(NewCmd) >= 1
             /\ Len(locals.control_points) >= 1 /\ PrevCmd \notin {"C", "S"} =>
         locals'.control_points[Len(locals.control_points)].handleOut
             = <<locals.cx, locals.cy>>
      ]_vars

\* ------------------------------------------------------------------ C15
\* C15: when the command before a T/t is a C/c or S/s, the quadratic control
\* of the first T segment is the current point P0: the handleOut set on the
\* previous point is P0 and the handleIn CP2 of the appended point P1 has
\* 3*CP2 = P1 + 2*P0.
C15_QuadraticTrackedApart ==
    [][Reads /\ Upper(NewCmd.cmd) = "T" /\ Groups(NewCmd) >= 1
             /\ Len(locals.control_points) >= 1 /\ PrevCmd \in {"C", "S"} =>
         LET n == Len(locals.control_points)
             pts == locals'.control_points
             P0 == <<locals.cx, locals.cy>>
         IN  /\ pts[n].handleOut = P0
             /\ \A d \in 1..2 :
                  3 * pts[n + 1].handleIn[d] = Anchor(pts, n + 1)[d] + 2 * P0[d]
      ]_vars

\* ------------------------------------------------------------------ C16
\* the arguments of the absolute C command that draws, from state s, the
\* segment of the first group of the S, Q or T command (cmd, args): the
\* derived first control, the explicit or derived second control, the end
DerivedCubic(s, cmd, args) ==
    LET u == Upper(cmd)
        bx == IF IsLower(cmd) THEN s.cx ELSE 0
        by == IF IsLower(cmd) THEN s.cy ELSE 0
        q == IF u = "Q" THEN <<args[1] + bx, args[2] + by>> ELSE Reflect(s)
        end == IF u = "T" THEN <<args[1] + bx, args[2] + by>>
                          ELSE <<args[3] + bx, args[4] + by>>
    IN  IF u = "S"
        THEN <<q[1], q[2], args[1] + bx, args[2] + by, end[1], end[2]>>
        ELSE <<QuadCp(s.cx, q[1]), QuadCp(s.cy, q[2]),
               QuadCp(end[1], q[1]), QuadCp(end[2], q[2]), end[1], end[2]>>

\* the same for every group of the command, each group taken from the state
\* the groups before it leave
RECURSIVE DerivedCubics(_, _, _)
DerivedCubics(s, cmd, args) ==
    LET n == Arity(Upper(cmd)) IN
    IF Len(args) < n THEN <<>>
    ELSE DerivedCubic(s, cmd, args)
             \o DerivedCubics(ExecCommand(s, cmd, SubSeq(args, 1, n)), cmd,
                              SubSeq(args, n + 1, Len(args)))

\* C16: an S/s, Q/q or T/t command leaves the point list (anchors, handles
\* and types, the type of the previous point included) as the C command
\* with the derived controls and the same end points leaves it.
C16_AsCubic ==
    [][Reads /\ Upper(NewCmd.cmd) \in {"S", "Q", "T"} =>
         locals'.control_points =
             ExecCommand(locals, "C",
                         DerivedCubics(locals, NewCmd.cmd, NewCmd.args)).control_points
      ]_vars

\* ------------------------------------------------------------------ C17
\* C17: for every group g of a C/c command, with control points CP1, CP2 and
\* end point P1 (offsets from the current point before the group when the
\* command is relative): the point before the appended one gets handleOut
\* CP1; the appended point is P1 with handleIn CP2 and type smooth, and the
\* last appended point has no handleOut; the point that was last before the
\* command becomes smooth iff it had a handleIn, keeps its type otherwise,
\* and keeps its anchor, id and handleIn; the points before it are left as
\* they are; last_cp becomes the CP2 of the last group.
C17_CubicHandles ==
    [][Reads /\ Upper(NewCmd.cmd) = "C" /\ Groups(NewCmd) >= 1 =>
         LET n == Len(locals.control_points)
             old == locals.control_points
             pts == locals'.control_points
             a == NewCmd.args
             G == Groups(NewCmd)
             P(g) == IF g = 0 THEN <<locals.cx, locals.cy>> ELSE Anchor(pts, n + g)
             base(g) == IF IsLower(NewCmd.cmd) THEN P(g - 1) ELSE <<0, 0>>
             CP1(g) == <<a[6 * g - 5] + base(g)[1], a[6 * g - 4] + base(g)[2]>>
             CP2(g) == <<a[6 * g - 3] + base(g)[1], a[6 * g - 2] + base(g)[2]>>
         IN  /\ Len(pts) = n + G
             /\ \A g \in 1..G :
                  /\ Anchor(pts, n + g) = <<a[6 * g - 1] + base(g)[1], a[6 * g] + base(g)[2]>>
                  /\ pts[n + g].handleIn = CP2(g)
                  /\ pts[n + g].type = "smooth"
                  /\ n + g - 1 >= 1 => pts[n + g - 1].handleOut = CP1(g)
             /\ pts[n + G].handleOut = None
             /\ n >= 1 =>
                  /\ SubSeq(pts, 1, n - 1) = SubSeq(old, 1, n - 1)
                  /\ pts[n] = [old[n] EXCEPT !.handleOut = CP1(1),
                                             !.type = IF old[n].handleIn # None
                                                      THEN "smooth" ELSE @]
             /\ locals'.last_cp = CP2(G)
      ]_vars

\* "M 0,0 l 1,1 c 1,2 3,4 5,6 6,5 4,3 2,1" has been read: (1,1), with no
\* handleIn, stays a corner with handleOut (2,3); (6,7), with handleIn (4,5),
\* is smooth with handleOut (12,12); (8,8) is smooth and has no handleOut
C17_Witness ==
    /\ Len(commands) = 3
    /\ commands[1] = [cmd |-> "M", args |-> <<0, 0>>]
    /\ commands[2] = [cmd |-> "l", args |-> <<Float(1), Float(1)>>]
    /\ commands[3].cmd = "c" /\ Len(commands[3].args) = 12
    /\ Len(locals.control_points) = 4
    /\ locals.control_points[2].type = "corner"
    /\ locals.control_points[2].handleOut = <<Float(2), Float(3)>>
    /\ locals.control_points[3].type = "smooth"
    /\ locals.control_points[3].handleIn = <<Float(4), Float(5)>>
    /\ locals.control_points[3].handleOut = <<Float(12), Float(12)>>
    /\ locals.control_points[4].type = "smooth"
    /\ locals.control_points[4].handleOut = None

\* ------------------------------------------------------------------ C18
\* C18: in a returned point list, a point is smooth iff it has both a
\* handleIn and a handleOut, and is a corner otherwise.
C18_SmoothIffBothHandles ==
    ppc = "done" =>
        \A k \in 1..Len(locals.control_points) :
            LET p == locals.control_points[k] IN
            /\ p.type \in {"smooth", "corner"}
            /\ p.type = "smooth" <=> (p.handleIn # None /\ p.handleOut # None)

\* ------------------------------------------------------------------ C19
\* C19: when a C/c, S/s, Q/q or T/t command sets the handleOut of the last
\* point of the list, that point is the current point, from which the first
\* segment of the command is drawn.
C19_HandleOutAtStart ==
    [][Reads /\ Upper(NewCmd.cmd) \in {"C", "S", "Q", "T"} /\ Groups(NewCmd) >= 1
             /\ Len(locals.control_points) >= 1 =>
         Anchor(locals.control_points, Len(locals.control_points))
             = <<locals.cx, locals.cy>>
      ]_vars

\* ------------------------------------------------------------------ C20
\* C20: a Z/z leaves the point list as it is, sets the current point to the
\* subpath start and clears last_cp; the subpath start is the first point of
\* the most recent M/m that had a coordinate pair (no other command changes
\* it); and a relative command read directly after a Z/z does what the
\* absolute command with its offsets added to the subpath start does.
C20_ClosePath ==
    [][Reads =>
         LET start == <<locals.start_x, locals.start_y>>
             start_ == <<locals'.start_x, locals'.start_y>>
             n == Len(locals.control_points)
         IN  /\ Upper(NewCmd.cmd) = "Z" =>
                  /\ locals'.control_points = locals.control_points
                  /\ <<locals'.cx, locals'.cy>> = start
                  /\ locals'.last_cp = None
             /\ start_ = IF Upper(NewCmd.cmd) = "M" /\ Groups(NewCmd) >= 1
                         THEN Anchor(locals'.control_points, n + 1)
                         ELSE start
             /\ PrevCmd = "Z" /\ IsLower(NewCmd.cmd) =>
                  locals' = ExecCommand(locals, Upper(NewCmd.cmd),
                                        AbsoluteArgs(Upper(NewCmd.cmd), NewCmd.args, 0,
                                                     start[1], start[2]))
      ]_vars

\* "m 1,2 3,4 z l 10,0" has been read: the l is drawn from the start (1,2) of
\* the subpath, not from its last point (4,6), and appends (11,2)
C20_Witness ==
    /\ Len(commands) = 3
    /\ commands[1] = [cmd |-> "m", args |-> <<Float(1), Float(2), Float(3), Float(4)>>]
    /\ Upper(commands[2].cmd) = "Z"
    /\ commands[3] = [cmd |-> "l", args |-> <<Float(10), 0>>]
    /\ locals.is_closed
    /\ Len(locals.control_points) = 3
    /\ Anchor(locals.control_points, 2) = <<Float(4), Float(6)>>
    /\ Anchor(locals.control_points, 3) = <<Float(11), Float(2)>>

\* ------------------------------------------------------------------ C21
\* C21: an M/m command appends one corner point without handles per
\* coordinate pair, each pair of an m taken from the current point left by
\* the pair before, and leaves the earlier points as they are; the current
\* point ends at the last appended point; the subpath start becomes the
\* point of the first pair, not of a later one; last_cp is None afterwards.
C21_MoveToPairs ==
    [][Reads /\ Upper(NewCmd.cmd) = "M" =>
         LET n == Len(locals.control_points)
             pts == locals'.control_points
             a == NewCmd.args
             G == Groups(NewCmd)
         IN  /\ Len(pts) = n + G
             /\ SubSeq(pts, 1, n) = locals.control_points
             /\ \A g \in 1..G :
                  LET P0 == IF g = 1 THEN <<locals.cx, locals.cy>>
                                     ELSE Anchor(pts, n + g - 1)
                      base == IF IsLower(NewCmd.cmd) THEN P0 ELSE <<0, 0>>
                  IN  /\ Anchor(pts, n + g) = <<a[2 * g - 1] + base[1], a[2 * g] + base[2]>>
                      /\ pts[n + g].type = "corner"
                      /\ pts[n + g].handleIn = None
                      /\ pts[n + g].handleOut = None
             /\ G >= 1 =>
                  /\ <<locals'.cx, locals'.cy>> = Anchor(pts, n + G)
                  /\ <<locals'.start_x, locals'.start_y>> = Anchor(pts, n + 1)
             /\ ~locals'.raised => locals'.last_cp = None
      ]_vars

\* "M 10,10 m 1,2 3,4" has been read: the m appends (11,12) and (14,16) and
\* the subpath starts at (11,12)
C21_Witness ==
    /\ Len(commands) = 2
    /\ commands[1] = [cmd |-> "M", args |-> <<Float(10), Float(10)>>]
    /\ commands[2] = [cmd |-> "m", args |-> <<Float(1), Float(2), Float(3), Float(4)>>]
    /\ Len(locals.control_points) = 3
    /\ Anchor(locals.control_points, 2) = <<Float(11), Float(12)>>
    /\ Anchor(locals.control_points, 3) = <<Float(14), Float(16)>>
    /\ <<locals.start_x, locals.start_y>> = <<Float(11), Float(12)>>
    /\ <<locals.cx, locals.cy>> = <<Float(14), Float(16)>>

\* ------------------------------------------------------------------ C22
\* C22: after an M, L, H, V, A or Z command (either case) that returns,
\* last_cp is None; and the first segment of an S/s or T/t read directly
\* after such a command takes the current point P0 as its derived control:
\* the handleOut set on the previous point is P0, and for T the handleIn CP2
\* of the appended point P1 has 3*CP2 = P1 + 2*P0.
C22_ClearedByNonCurve ==
    [][Reads =>
         LET n == Len(locals.control_points)
             pts == locals'.control_points
             P0 == <<locals.cx, locals.cy>>
             NonCurve == {"M", "L", "H", "V", "A", "Z"}
         IN  /\ Upper(NewCmd.cmd) \in NonCurve /\ ~locals'.raised =>
                  locals'.last_cp = None
             /\ PrevCmd \in NonCurve /\ Upper(NewCmd.cmd) \in {"S", "T"}
                    /\ Groups(NewCmd) >= 1 /\ n >= 1 =>
                  /\ pts[n].handleOut = P0
                  /\ Upper(NewCmd.cmd) = "T" =>
                       \A d \in 1..2 :
                          3 * pts[n + 1].handleIn[d] = Anchor(pts, n + 1)[d] + 2 * P0[d]
      ]_vars

\* "c 1,2 3,4 5,6 l 1,1 s 1,2 3,4" has been read: the s after the l puts the
\* handleOut of (6,7) at (6,7), not at a reflection of the control (3,4)
C22_Witness ==
    /\ Len(commands) = 3
    /\ commands[1].cmd = "c" /\ Len(commands[1].args) = 6
    /\ commands[2] = [cmd |-> "l", args |-> <<Float(1), Float(1)>>]
    /\ commands[3] = [cmd |-> "s", args |-> <<Float(1), Float(2), Float(3), Float(4)>>]
    /\ Len(locals.control_points) = 3
    /\ locals.control_points[2].handleOut = <<Float(6), Float(7)>>

\* ------------------------------------------------------------------ C23
\* the command before the one read in this step drew at least one segment
PrevDrew == Len(commands) >= 1 /\ Groups(commands[Len(commands)]) >= 1

\* the quadratic control of segment g of a T command: the control q0 of the
\* segment before the command, reflected through the start of every segment
\* up to g; stops[g] is the point segment g starts at
RECURSIVE ReflectedControl(_, _, _)
ReflectedControl(q0, stops, g) ==
    IF g = 0 THEN q0
    ELSE LET q == ReflectedControl(q0, stops, g - 1)
         IN  <<2 * stops[g][1] - q[1], 2 * stops[g][2] - q[2]>>

\* C23: a Q/q leaves in last_cp the quadratic control of its last group, as
\* given in the path data.  When a T/t follows a Q/q or T/t that drew a
\* segment, the quadratic control Qg of its segment g is the reflection,
\* through the point P(g-1) the segment starts at, of the quadratic control
\* of the segment before; the segment ends at Pg, the handleOut CP1 of its
\* start has 3*CP1 = P(g-1) + 2*Qg and the handleIn CP2 of its end has
\* 3*CP2 = Pg + 2*Qg; last_cp is left at the control of the last segment.
C23_QuadraticChain ==
    [][Reads /\ Groups(NewCmd) >= 1 =>
         LET n == Len(locals.control_points)
             pts == locals'.control_points
             a == NewCmd.args
             G == Groups(NewCmd)
             P(g) == IF g = 0 THEN <<locals.cx, locals.cy>> ELSE Anchor(pts, n + g)
             base(g) == IF IsLower(NewCmd.cmd) THEN P(g - 1) ELSE <<0, 0>>
             stops == [g \in 1..G |-> P(g - 1)]
             Q(g) == ReflectedControl(locals.last_cp, stops, g)
         IN  /\ Upper(NewCmd.cmd) = "Q" =>
                  locals'.last_cp = <<a[4 * G - 3] + base(G)[1], a[4 * G - 2] + base(G)[2]>>
             /\ Upper(NewCmd.cmd) = "T" /\ PrevCmd \in {"Q", "T"} /\ PrevDrew =>
                  /\ Len(pts) = n + G
                  /\ \A g \in 1..G :
                       /\ Anchor(pts, n + g) = <<a[2 * g - 1] + base(g)[1], a[2 * g] + base(g)[2]>>
                       /\ \A d \in 1..2 :
                            /\ 3 * pts[n + g].handleIn[d] = P(g)[d] + 2 * Q(g)[d]
                            /\ n + g - 1 >= 1 =>
                                 3 * pts[n + g - 1].handleOut[d] = P(g - 1)[d] + 2 * Q(g)[d]
                  /\ locals'.last_cp = Q(G)
      ]_vars

\* "M 0,0 Q 50,100 100,0 t 1,2 2,1" has been read: the controls of the two t
\* segments are (150,-100) and (52,104); the end points (101,2) and (103,3)
C23_Witness ==
    /\ Len(commands) = 3
    /\ commands[1] = [cmd |-> "M", args |-> <<0, 0>>]
    /\ commands[2] = [cmd |-> "Q", args |-> <<Float(50), Float(100), Float(100), 0>>]
    /\ commands[3] = [cmd |-> "t", args |-> <<Float(1), Float(2), Float(2), Float(1)>>]
    /\ Len(locals.control_points) = 4
    /\ Anchor(locals.control_points, 4) = <<Float(103), Float(3)>>
    /\ locals.last_cp = <<Float(52), Float(104)>>
    /\ locals.control_points[2].handleOut = <<400, -200>>

\* ------------------------------------------------------------------ C24
\* C24: an A/a command appends one corner point without handles per group
\* of seven arguments, at the sixth and seventh argument of the group (plus
\* the current point before the group when relative), whatever the first
\* five are; it leaves every earlier point as it is; the current point ends
\* at the last appended point; last_cp is None afterwards.
C24_ArcAsLine ==
    [][Reads /\ Upper(NewCmd.cmd) = "A" =>
         LET n == Len(locals.control_points)
             pts == locals'.control_points
             a == NewCmd.args
             G == Groups(NewCmd)
         IN  /\ Len(pts) = n + G
             /\ SubSeq(pts, 1, n) = locals.control_points
             /\ \A g \in 1..G :
                  LET P0 == IF g = 1 THEN <<locals.cx, locals.cy>>
                                     ELSE Anchor(pts, n + g - 1)
                      base == IF IsLower(NewCmd.cmd) THEN P0 ELSE <<0, 0>>
                  IN  /\ Anchor(pts, n + g) = <<a[7 * g - 1] + base[1], a[7 * g] + base[2]>>
                      /\ pts[n + g].type = "corner"
                      /\ pts[n + g].handleIn = None
                      /\ pts[n + g].handleOut = None
             /\ G >= 1 => <<locals'.cx, locals'.cy>> = Anchor(pts, n + G)
             /\ locals'.last_cp = None
      ]_vars

\* "M 2,1 c 1,2 3,4 5,6 a 1,1 0 0 1 2,3 2,2 0 1 0 3,1" has been read: the
\* arcs append (9,10) and (12,11); the point (7,7) before them keeps its
\* handleIn (5,5), has no handleOut and stays smooth
C24_Witness ==
    /\ Len(commands) = 3
    /\ commands[1] = [cmd |-> "M", args |-> <<Float(2), Float(1)>>]
    /\ commands[2].cmd = "c" /\ Len(commands[2].args) = 6
    /\ commands[3].cmd = "a" /\ Len(commands[3].args) = 14
    /\ Len(locals.control_points) = 4
    /\ locals.control_points[2].handleIn = <<Float(5), Float(5)>>
    /\ locals.control_points[2].handleOut = None
    /\ Anchor(locals.control_points, 3) = <<Float(9), Float(10)>>
    /\ Anchor(locals.control_points, 4) = <<Float(12), Float(11)>>
    /\ locals.last_cp = None

\* ------------------------------------------------------------------ C25
\* for every point appended by the commands cmds[k..], in order, the letter
\* (upper case) of the command that appended it
RECURSIVE Makers(_, _)
Makers(cmds, k) ==
    IF k > Len(cmds) THEN <<>>
    ELSE [g \in 1..Groups(cmds[k]) |-> Upper(cmds[k].cmd)] \o Makers(cmds, k + 1)

\* C25: after any sequence of commands, a point has a handleOut iff the
\* point after it has a handleIn; a point has a handleIn iff a C, S, Q or T
\* command appended it; the last point has no handleOut.
C25_HandlePairing ==
    LET pts == locals.control_points
        n == Len(pts)
    IN  /\ n = Len(Makers(commands, 1))
        /\ \A k \in 1..n - 1 : pts[k].handleOut # None <=> pts[k + 1].handleIn # None
        /\ \A k \in 1..n : pts[k].handleIn # None <=> Makers(commands, 1)[k] \in {"C", "S", "Q", "T"}
        /\ n >= 1 => pts[n].handleOut = None

\* a path of a line point, two curve points and a line point has been read:
\* handles pair up across the curve segments only
C25_Witness ==
    /\ Len(locals.control_points) = 4
    /\ locals.control_points[1].handleIn = None
    /\ locals.control_points[1].handleOut # None
    /\ locals.control_points[2].handleIn # None
    /\ locals.control_points[2].handleOut # None
    /\ locals.control_points[3].handleIn # None
    /\ locals.control_points[3].handleOut = None
    /\ locals.control_points[4].handleIn = None
    /\ Upper(commands[2].cmd) = "S"

\* ------------------------------------------------------------------ C27
\* C27: a command never removes or reorders points: every point that exists
\* before it is at the same position after it with the same id, anchor and
\* handleIn; its handleOut and type change only if it is the last point of
\* the list and the command is a C, S, Q or T that draws a segment.
C27_AppendOnly ==
    [][Reads =>
         LET old == locals.control_points
             pts == locals'.control_points
             n == Len(old)
         IN  /\ Len(pts) >= n
             /\ \A k \in 1..n :
                  /\ pts[k].id = old[k].id
                  /\ Anchor(pts, k) = Anchor(old, k)
                  /\ pts[k].handleIn = old[k].handleIn
                  /\ (pts[k].handleOut # old[k].handleOut \/ pts[k].type # old[k].type) =>
                       /\ k = n
                       /\ Upper(NewCmd.cmd) \in {"C", "S", "Q", "T"}
                       /\ Groups(NewCmd) >= 1
      ]_vars

\* "M 1,2 c 1,2 3,4 5,6 S 4,3 2,1" has been read: the S gave the second
\* point its handleOut and left the first point as the c had left it
C27_Witness ==
    /\ Len(commands) = 3
    /\ commands[1] = [cmd |-> "M", args |-> <<Float(1), Float(2)>>]
    /\ commands[2].cmd = "c" /\ commands[3].cmd = "S"
    /\ Len(locals.control_points) = 3
    /\ locals.control_points[1].handleOut = <<Float(2), Float(4)>>
    /\ locals.control_points[1].type = "corner"
    /\ locals.control_points[2].handleOut # None

\* ------------------------------------------------------------------ C29
\* C29: a C, S, Q, T or A command whose arguments do not fill a last group
\* does what the command with only its complete groups does: it appends
\* nothing for the incomplete group and raises nothing, and with no complete
\* group at all it leaves the point list, the current point and the subpath
\* start as they are; the loop goes on to the next command.
C29_IncompleteGroup ==
    [][Reads /\ Upper(NewCmd.cmd) \in {"C", "S", "Q", "T", "A"} =>
         LET whole == Groups(NewCmd) * Arity(Upper(NewCmd.cmd)) IN
         /\ ~locals'.raised /\ ppc' = "loop"
         /\ Len(locals'.control_points) = Len(locals.control_points) + Groups(NewCmd)
         /\ locals' = ExecCommand(locals, NewCmd.cmd, SubSeq(NewCmd.args, 1, whole))
         /\ Groups(NewCmd) = 0 =>
              /\ locals'.control_points = locals.control_points
              /\ <<locals'.cx, locals'.cy>> = <<locals.cx, locals.cy>>
              /\ <<locals'.start_x, locals'.start_y>> = <<locals.start_x, locals.start_y>>
      ]_vars

\* "M 0,0 C 1,2 3,4 5,6 7 l 1,1" has been read: the seventh argument of the
\* C is dropped and the l appends (6,7)
C29_Witness ==
    /\ Len(commands) = 3
    /\ commands[1] = [cmd |-> "M", args |-> <<0, 0>>]
    /\ commands[2].cmd = "C" /\ Len(commands[2].args) = 7
    /\ commands[3] = [cmd |-> "l", args |-> <<Float(1), Float(1)>>]
    /\ Len(locals.control_points) = 3
    /\ Anchor(locals.control_points, 3) = <<Float(6), Float(7)>>

\* ------------------------------------------------------------------ C28
\* C28: a <path> tag appends at most one record, whatever the number of
\* subpaths of its path data; the record holds as many points as the M, L,
\* H, V, C, S, Q, T and A commands of the path data have complete groups;
\* and the first point of every subpath begun by an absolute M stands in the
\* list right after the points of the commands before that M.
C28_OneRecordPerElement ==
    [][\A t \in Tasks :
         Takes(t) =>
           LET cmds == Commands(Lex(Group1(D, NextTag(t))))
               pts == paths'[t][Len(paths'[t])].controlPoints
           IN  /\ Len(paths'[t]) <= Len(paths[t]) + 1
               /\ paths'[t] # paths[t] =>
                    /\ Len(pts) = Len(Makers(cmds, 1))
                    /\ \A k \in 1..Len(cmds) :
                         cmds[k].cmd = "M" /\ Groups(cmds[k]) >= 1 =>
                           Anchor(pts, Len(Makers(SubSeq(cmds, 1, k - 1), 1)) + 1)
                               = <<cmds[k].args[1], cmds[k].args[2]>>
      ]_vars

\* a call has returned, for the tag with d="M0,0 L5,5 Z m1,1 l2,2 3,3", one
\* record with the points of both subpaths: (0,0) (5,5) (1,1) (3,3) (6,6)
C28_Witness ==
    \E t \in Tasks :
        /\ pc[t] = "done"
        /\ svg[t] = <<Tag("M0,0 L5,5 Z m1,1 l2,2 3,3", "#ff0000", "absent")>>
        /\ Len(paths[t]) = 1
        /\ [k \in 1..5 |-> Anchor(paths[t][1].controlPoints, k)] =
               <<<<0, 0>>, <<Float(5), Float(5)>>, <<Float(1), Float(1)>>,
                 <<Float(3), Float(3)>>, <<Float(6), Float(6)>>>>
        /\ paths[t][1].closed

\* ------------------------------------------------------------------ C26
\* the coordinate pairs of the commands cmds[k..], as written
RECURSIVE Pairs(_, _)
Pairs(cmds, k) ==
    IF k > Len(cmds) THEN <<>>
    ELSE [g \in 1..Groups(cmds[k]) |-> <<cmds[k].args[2 * g - 1], cmds[k].args[2 * g]>>]
             \o Pairs(cmds, k + 1)

\* C26: the response to a trace reports the width and height of the traced
\* image; two traces of the same SVG text answer the same paths whatever
\* the sizes of their images; and the points of a path whose data are
\* absolute M, L and Z commands are the coordinate pairs written there.
C26_SizeIndependent ==
    \A t \in Tasks :
        pc[t] = "done" =>
          LET r == TraceResponse(t) IN
          /\ r.width = img_size[t][1] /\ r.height = img_size[t][2]
          /\ \A u \in Tasks :
               svg[u] = svg[t] /\ pc[u] = "done" => TraceResponse(u).paths = r.paths
          /\ \A k \in 1..Len(r.paths) :
               \E i \in 0..Len(svg[t]) - 1 :
                  /\ r.paths[k].id = "path_" \o ToString(i)
                  /\ LET cmds == Commands(Lex(Group1(D, svg[t][i + 1])))
                         pts == r.paths[k].controlPoints
                     IN  (\A j \in 1..Len(cmds) : cmds[j].cmd \in {"M", "L", "Z"}) =>
                           [n \in 1..Len(pts) |-> Anchor(pts, n)] = Pairs(cmds, 1)

\* two traces of the same SVG text, from images of different sizes, have
\* both answered a path
C26_Witness ==
    /\ svg[1] = svg[2]
    /\ img_size[1] # img_size[2]
    /\ pc[1] = "done" /\ pc[2] = "done"
    /\ Len(TraceResponse(1).paths) >= 1
    /\ TraceResponse(1).width # TraceResponse(2).width

\* ------------------------------------------------------------------ C30
\* C30: whenever no download handler is executing, STARVECTOR_AVAILABLE is
\* true iff STARVECTOR_MODEL is not None, and STARVECTOR_LOADING is false;
\* so the 503 test of handle_ai_vectorize fails exactly the requests made
\* while STARVECTOR_MODEL is None.
C30_Lifecycle ==
    hpc.download = "idle" =>
        /\ STARVECTOR_AVAILABLE <=> STARVECTOR_MODEL # None
        /\ ~STARVECTOR_LOADING

====
